---- MODULE Spec2Model ----
(***************************************************************************)
(* cachy: disk-backed memoisation (Cachedf) and call throttling            *)
(* (Throttledf), modelled from src/cachy/data.py.                          *)
(*                                                                         *)
(* Time is counted in whole seconds.  In Spec a Cachedf call is one step:   *)
(* the library is synchronous and single-threaded, so the stat calls, the  *)
(* fetch, the persist, the sentinel write and the read of one call happen  *)
(* with no other call in between.  ConcSpec splits the call into its disk  *)
(* accesses for two concurrent callers, ThrottleSpec runs a Throttledf and *)
(* FreshSpec applies need_to_download.                                     *)
(***************************************************************************)
EXTENDS Integers, Sequences, FiniteSets, TLC

\* ------------------------------------------------------------------ bounds
MaxTime == 2        \* the clock runs over 0..MaxTime
MaxExpire == 1      \* expire_time_secs ranges over 0..MaxExpire
MaxCalls == 2       \* Throttledf.calls ranges over 0..MaxCalls
MaxInvocations == 6 \* Throttledf invocations per behaviour

\* ------------------------------------------------------------- value sets
Keys == {"k"}                       \* cache keys (args[0])
Values == {"V", "OLD"}              \* results of download_f
Corrupt == "corrupt"                \* content of a file whose dump failed
\* <<positional arguments after the key, keyword arguments (names)>>
CallArgs == {<< <<>>, <<>> >>, << <<"a">>, <<"x">> >>}
SaveOutcomes == {"ok", "fail_clean", "fail_partial"}
DownloadOutcomes == [ok : {TRUE}, r : Values] \cup {[ok |-> FALSE, r |-> "none"]}

NoEntry == [exists |-> FALSE, mtime |-> 0, data |-> "none"]
NoFail == [exists |-> FALSE, mtime |-> 0, stamp |-> 0]

VARIABLES
    clock,      \* dt.datetime.now(), in seconds
    cfg,        \* the Cachedf object's fields (set in __init__, never changed)
    dir_exists, \* whether the directory self.path exists
    entry,      \* entry[k]: the file <path>/<k>
    fail,       \* fail[k]: the file <path>/<k>.fail
    last,       \* what the most recent Cachedf call saw and did
    stored,     \* stored[k]: entry[k] is as a successful fetch-and-persist left it
    failed,     \* failed[k]: fail[k] is as a call whose download_f raised left it
    th,         \* the Throttledf object's fields
    tcount,     \* number of Throttledf invocations so far
    tlast,      \* what the most recent Throttledf invocation did
    nd,         \* the arguments and the result of a need_to_download call
    procs,      \* procs[p]: where concurrent caller p is in its Cachedf call
    last_writer \* the concurrent caller whose pickle.dump completed last

vars ==
    <<clock, cfg, dir_exists, entry, fail, last, stored, failed, th, tcount, tlast, nd,
      procs, last_writer>>

\* ------------------------------------------------------- Cachedf.__init__
Configs ==
    [ expire_time_secs : 0..MaxExpire,
      only_cached : BOOLEAN,
      force_reload : BOOLEAN,
      cache_failure : BOOLEAN,
      use_stale_on_failure : BOOLEAN ]

\* ----------------------------------------------------- pure parts of __call__
Max(a, b) == IF a >= b THEN a ELSE b

\* args[1:]
fargs_with_key(args) == args
fargs(args) == Tail(args)

\* lines 77-80: mtime of the entry, or a synthetic timestamp older than the window
entry_last_fetch(file_exists, mtime, now, expire_time_secs) ==
    IF file_exists THEN mtime ELSE now - (expire_time_secs + 1)

\* lines 87-89: the later of the entry's and the sentinel's timestamps
last_fetch_ignoring_fail(fail_file_exists, ff_mtime, lf) == lf
last_fetch_earliest(fail_file_exists, ff_mtime, lf) ==
    IF fail_file_exists /\ ff_mtime < lf THEN ff_mtime ELSE lf
last_fetch(fail_file_exists, ff_mtime, lf) ==
    IF fail_file_exists THEN Max(ff_mtime, lf) ELSE lf

\* line 92
file_expired_inclusive(now, lf, expire_time_secs) == now - lf >= expire_time_secs
file_expired(now, lf, expire_time_secs) == now - lf > expire_time_secs

\* line 96
expired_file_despite_only_cached(file_exists, fail_file_exists, expired, only_cached) ==
    (file_exists \/ fail_file_exists) /\ expired
expired_file(file_exists, fail_file_exists, expired, only_cached) ==
    (file_exists \/ fail_file_exists) /\ expired /\ ~only_cached

\* line 105
will_download_unforced(is_expired_file, no_file, force_reload) ==
    is_expired_file \/ no_file
will_download(is_expired_file, no_file, force_reload) ==
    is_expired_file \/ no_file \/ force_reload

\* lines 74-105: the decision to download, from what the call finds on disk,
\* the time and the object's fields
should_download(file_exists, e_mtime, fail_file_exists, ff_mtime, now, c) ==
    LET lf0 == entry_last_fetch(file_exists, e_mtime, now, c.expire_time_secs)
        lf == last_fetch(fail_file_exists, ff_mtime, lf0)
        expired == file_expired(now, lf, c.expire_time_secs)
        is_expired_file == expired_file(file_exists, fail_file_exists, expired, c.only_cached)
    IN  will_download(is_expired_file, ~file_exists, c.force_reload)

\* lines 107-110: whether control reaches the except branch
try_raised_or_skipped(fetch, dl_ok, sv) == ~(fetch /\ dl_ok /\ sv = "ok")
try_raised(fetch, dl_ok, sv) == fetch /\ ~(dl_ok /\ sv = "ok")

\* lines 111-113: whether the except branch writes the sentinel
writes_fail_file(cache_failure) == cache_failure

\* lines 115-124: whether the except branch falls through to read_f
uses_stale_without_file(use_stale_on_failure, no_file) == use_stale_on_failure
uses_stale_never(use_stale_on_failure, no_file) == FALSE
uses_stale(use_stale_on_failure, no_file) ==
    use_stale_on_failure /\ ~no_file

\* lines 124-126: whether read_f is called: in the else branch, or at the end of
\* the except branch
reads_entry_always(fetch, raised, stale) == TRUE
reads_entry(fetch, raised, stale) == ~fetch \/ (raised /\ stale)

\* pickle_save: open(fn, "wb") truncates, pickle.dump writes.  outcome "ok":
\* the file holds data; "fail_clean": open raised, the file is untouched;
\* "fail_partial": dump raised after the file was truncated.
pickle_save_removing_partial(file, data, now, outcome) ==
    CASE outcome = "ok" -> [exists |-> TRUE, mtime |-> now, data |-> data]
      [] outcome = "fail_partial" -> NoEntry
      [] OTHER -> file
pickle_save_keeping_existing(file, data, now, outcome) ==
    IF file.exists /\ file.data \in Values THEN file
    ELSE CASE outcome = "ok" -> [exists |-> TRUE, mtime |-> now, data |-> data]
           [] outcome = "fail_partial" -> [exists |-> TRUE, mtime |-> now, data |-> Corrupt]
           [] OTHER -> file
pickle_save(file, data, now, outcome) ==
    CASE outcome = "ok" -> [exists |-> TRUE, mtime |-> now, data |-> data]
      [] outcome = "fail_partial" -> [exists |-> TRUE, mtime |-> now, data |-> Corrupt]
      [] OTHER -> file

\* pickle_read: raises when the file is missing or does not unpickle
pickle_read(file) ==
    IF file.exists /\ file.data # Corrupt
    THEN [ok |-> TRUE, r |-> file.data]
    ELSE [ok |-> FALSE, r |-> "none"]

\* the sentinel after open(fail_file, "w"); f.write(now.isoformat())
write_fail_file(now) == [exists |-> TRUE, mtime |-> now, stamp |-> now]

NoCall ==
    [ key |-> "none", args |-> <<>>, kwargs |-> <<>>, now |-> 0,
      file_exists |-> FALSE, fail_file_exists |-> FALSE, file_expired |-> FALSE,
      fetch |-> FALSE, events |-> <<>>, dl_args |-> <<>>, save_args |-> <<>>,
      dl_ok |-> FALSE, save_outcome |-> "none",
      outcome |-> "none", r |-> "none", err |-> "none" ]

\* ------------------------------------------------------ Cachedf.__call__
\* args = <<key>> \o positional arguments; dl: what download_f does when it
\* is called; sv: what save_f does when it is called.
CachedfCall(args, kwargs, dl, sv) ==
    LET key == Head(args)
        now == clock
        file_exists == entry[key].exists
        fail_file_exists == fail[key].exists
        lf0 == entry_last_fetch(file_exists, entry[key].mtime, now, cfg.expire_time_secs)
        lf == last_fetch(fail_file_exists, fail[key].mtime, lf0)
        expired == file_expired(now, lf, cfg.expire_time_secs)
        no_file == ~file_exists
        fetch == should_download(file_exists, entry[key].mtime,
                                 fail_file_exists, fail[key].mtime, now, cfg)
        \* try: r = download_f(*fargs, **kwargs); save_f(fn, r)
        saved == fetch /\ dl.ok
        try_ok == saved /\ sv = "ok"
        raised == try_raised(fetch, dl.ok, sv)
        entry_after == IF saved THEN pickle_save(entry[key], dl.r, now, sv) ELSE entry[key]
        \* except Exception as e:
        marks == raised /\ writes_fail_file(cfg.cache_failure)
        fail_after == IF marks THEN write_fail_file(now) ELSE fail[key]
        reads == reads_entry(fetch, raised, uses_stale(cfg.use_stale_on_failure, no_file))
        rd == pickle_read(entry_after)
        events ==
            (IF fetch THEN <<"download_f">> ELSE <<>>)
            \o (IF saved THEN <<"save_f">> ELSE <<>>)
            \o (IF marks THEN <<"fail_write">> ELSE <<>>)
            \o (IF reads THEN <<"read_f">> ELSE <<>>)
        returns == try_ok \/ (reads /\ rd.ok)
        r == IF try_ok THEN dl.r ELSE IF reads /\ rd.ok THEN rd.r ELSE "none"
        err ==
            IF returns THEN "none"
            ELSE IF reads THEN "read"
            ELSE IF dl.ok THEN "persist" ELSE "fetch"
    IN  /\ dir_exists' = TRUE
        /\ entry' = [entry EXCEPT ![key] = entry_after]
        /\ fail' = [fail EXCEPT ![key] = fail_after]
        /\ last' =
            [ key |-> key, args |-> args, kwargs |-> kwargs, now |-> now,
              file_exists |-> file_exists, fail_file_exists |-> fail_file_exists,
              file_expired |-> expired,
              fetch |-> fetch, events |-> events,
              dl_args |-> IF fetch THEN <<fargs(args), kwargs>> ELSE <<>>,
              save_args |-> IF saved THEN <<key, dl.r>> ELSE <<>>,
              dl_ok |-> fetch /\ dl.ok,
              save_outcome |-> IF saved THEN sv ELSE "none",
              outcome |-> IF returns THEN "return" ELSE "raise",
              r |-> r, err |-> err ]
        /\ stored' = [stored EXCEPT ![key] = IF saved THEN try_ok ELSE @]
        /\ failed' = [failed EXCEPT ![key] = IF marks THEN ~dl.ok ELSE @]
        /\ UNCHANGED <<clock, cfg, th, tcount, tlast, nd, procs, last_writer>>

Call ==
    \E key \in Keys, a \in CallArgs, dl \in DownloadOutcomes, sv \in SaveOutcomes :
        /\ dl.ok \/ sv = "ok"    \* save_f is only called with a downloaded result
        /\ CachedfCall(<<key>> \o a[1], a[2], dl, sv)

\* time passes between calls
Tick ==
    /\ clock < MaxTime
    /\ clock' = clock + 1
    /\ UNCHANGED <<cfg, dir_exists, entry, fail, last, stored, failed, th, tcount, tlast, nd,
                   procs, last_writer>>

\* ------------------------------------------------------------ Throttledf
NoThrottle ==
    [cc |-> 0, calls |-> 0, wait_secs |-> 0, interval_secs |-> 0, on_throttle |-> "none"]
NoInvocation ==
    [ index |-> 0, cc_before |-> 0, events |-> <<>>, cb_arg |-> "none", f_args |-> <<>>,
      slept |-> 0, f_result |-> "none", outcome |-> "none", r |-> "none", err |-> "none",
      cb_errors |-> 0 ]

\* Throttledf.__init__; on_throttle is None until the caller sets it:
\* "none", or a callback that returns ("ok"), or one that raises ("raises")
Throttles ==
    [ cc : {0}, calls : 0..MaxCalls, wait_secs : {0, 1}, interval_secs : {1},
      on_throttle : {"none", "ok", "raises"} ]

\* line 143
throttle_due_after(cc, calls) == cc % (calls + 1) = 0
throttle_due(cc, calls) == (cc + 1) % (calls + 1) = 0

\* line 153
cc_after_error_skips(cc, f_ok) == IF f_ok THEN cc + 1 ELSE cc
cc_after(cc, f_ok) == cc + 1

\* Throttledf.__call__; f: what the wrapped function does when it is called
ThrottledfCall(args, kwargs, f) ==
    LET due == throttle_due(th.cc, th.calls)
        cb_called == due /\ th.on_throttle # "none"
        cb_raised == cb_called /\ th.on_throttle = "raises"
        sleeps == due /\ ~cb_raised
        calls_f == ~cb_raised
        events ==
            (IF cb_called THEN <<"on_throttle">> ELSE <<>>)
            \o (IF sleeps THEN <<"sleep">> ELSE <<>>)
            \o (IF calls_f THEN <<"f", "cc += 1">> ELSE <<>>)
            \o (IF calls_f /\ f.ok THEN <<"return">> ELSE <<"raise">>)
    IN  /\ tcount < MaxInvocations
        /\ tcount' = tcount + 1
        /\ th' = [th EXCEPT !.cc = IF calls_f THEN cc_after(@, f.ok) ELSE @]
        /\ clock' = IF sleeps THEN clock + th.wait_secs ELSE clock
        /\ tlast' =
            [ index |-> tcount + 1, cc_before |-> th.cc, events |-> events,
              cb_arg |-> IF cb_called THEN "self" ELSE "none",
              f_args |-> IF calls_f THEN <<args, kwargs>> ELSE <<>>,
              slept |-> IF sleeps THEN th.wait_secs ELSE 0,
              f_result |-> IF ~calls_f THEN "none" ELSE IF f.ok THEN f.r ELSE "raised",
              outcome |-> IF calls_f /\ f.ok THEN "return" ELSE "raise",
              r |-> IF calls_f /\ f.ok THEN f.r ELSE "none",
              err |-> IF cb_raised THEN "on_throttle" ELSE IF f.ok THEN "none" ELSE "f",
              cb_errors |-> IF cb_raised THEN tlast.cb_errors + 1 ELSE tlast.cb_errors ]
        /\ UNCHANGED <<cfg, dir_exists, entry, fail, last, stored, failed, nd, procs, last_writer>>

Invoke ==
    \E a \in CallArgs, f \in DownloadOutcomes : ThrottledfCall(a[1], a[2], f)

\* ------------------------------------------------------ need_to_download
\* lines 11-19: file_expired as need_to_download computes it from the file's
\* existence and mtime
nd_file_expired_inclusive(file_exists, mtime, now, expire_time_secs) ==
    LET lf == IF file_exists THEN mtime ELSE now - (expire_time_secs + 1)
    IN  now - lf >= expire_time_secs
nd_file_expired(file_exists, mtime, now, expire_time_secs) ==
    LET lf == IF file_exists THEN mtime ELSE now - (expire_time_secs + 1)
    IN  now - lf > expire_time_secs

\* line 20
need_to_download(file_exists, mtime, now, expire_time_secs, force_reload, only_cached) ==
    \/ (nd_file_expired(file_exists, mtime, now, expire_time_secs) /\ ~only_cached)
    \/ ~file_exists
    \/ force_reload

NoQuery ==
    [ done |-> FALSE, file_exists |-> FALSE, mtime |-> 0, now |-> 0,
      expire_time_secs |-> 0, force_reload |-> FALSE, only_cached |-> FALSE,
      file_expired |-> FALSE, result |-> FALSE, cachedf_expired |-> FALSE ]

\* the situations need_to_download can be called in: a file last modified at
\* or before now, or no file
Queries ==
    { q \in [ done : {FALSE}, file_exists : BOOLEAN, mtime : 0..MaxTime, now : 0..MaxTime,
              expire_time_secs : 0..MaxExpire, force_reload : BOOLEAN, only_cached : BOOLEAN,
              file_expired : {FALSE}, result : {FALSE}, cachedf_expired : {FALSE} ] :
        /\ q.mtime <= q.now
        /\ ~q.file_exists => q.mtime = 0 }

\* one call of need_to_download; cachedf_expired is file_expired as lines
\* 77-92 of Cachedf.__call__ compute it for the same file and no fail file
NeedToDownload ==
    /\ ~nd.done
    /\ nd' =
        [ nd EXCEPT
            !.done = TRUE,
            !.file_expired = nd_file_expired(nd.file_exists, nd.mtime, nd.now, nd.expire_time_secs),
            !.result = need_to_download(nd.file_exists, nd.mtime, nd.now, nd.expire_time_secs,
                                        nd.force_reload, nd.only_cached),
            !.cachedf_expired =
                file_expired(nd.now,
                             last_fetch(FALSE, 0,
                                        entry_last_fetch(nd.file_exists, nd.mtime, nd.now,
                                                         nd.expire_time_secs)),
                             nd.expire_time_secs) ]
    /\ UNCHANGED <<clock, cfg, dir_exists, entry, fail, last, stored, failed, th, tcount, tlast,
                   procs, last_writer>>

\* ------------------------------------------- concurrent Cachedf.__call__
\* Two callers of the same Cachedf object for the same key.  Nothing in
\* Cachedf.__call__ locks, so a call is a sequence of steps, each one access
\* to the disk or one call of a collaborator, and the callers interleave.
Procs == {1, 2}
ColdKey == "k"
Idle ==
    [ pc |-> "start", now |-> 0, no_file |-> FALSE, fetch |-> FALSE, r |-> "none",
      wrote |-> FALSE, outcome |-> "none", result |-> "none", err |-> "none" ]

ConcUnchanged == UNCHANGED <<clock, cfg, last, stored, failed, th, tcount, tlast, nd>>

\* lines 68-105: stat both files, read the clock, decide
Start(p) ==
    /\ procs[p].pc = "start"
    /\ LET file_exists == entry[ColdKey].exists
           fetch == should_download(file_exists, entry[ColdKey].mtime,
                                    fail[ColdKey].exists, fail[ColdKey].mtime, clock, cfg)
       IN  procs' = [procs EXCEPT ![p] =
                [@ EXCEPT !.pc = IF fetch THEN "download" ELSE "read",
                          !.now = clock, !.no_file = ~file_exists, !.fetch = fetch]]
    /\ dir_exists' = TRUE
    /\ UNCHANGED <<entry, fail, last_writer>>
    /\ ConcUnchanged

\* line 108: r = self.download_f(*fargs, **kwargs)
Download(p, dl) ==
    /\ procs[p].pc = "download"
    /\ procs' = [procs EXCEPT ![p] =
            IF dl.ok THEN [@ EXCEPT !.pc = "save_open", !.r = dl.r]
            ELSE [@ EXCEPT !.pc = "except", !.err = "fetch"]]
    /\ UNCHANGED <<dir_exists, entry, fail, last_writer>>
    /\ ConcUnchanged

\* line 109 into pickle_save, line 165: open(fn, "wb") truncates the file
SaveOpen(p, ok) ==
    /\ procs[p].pc = "save_open"
    /\ entry' = [entry EXCEPT ![ColdKey] =
            pickle_save(@, procs[p].r, clock, IF ok THEN "fail_partial" ELSE "fail_clean")]
    /\ procs' = [procs EXCEPT ![p] =
            IF ok THEN [@ EXCEPT !.pc = "save_dump"]
            ELSE [@ EXCEPT !.pc = "except", !.err = "persist"]]
    /\ UNCHANGED <<dir_exists, fail, last_writer>>
    /\ ConcUnchanged

\* line 166: pickle.dump(data, f) and the close that flushes it; then line 127
SaveDump(p, ok) ==
    /\ procs[p].pc = "save_dump"
    /\ entry' = [entry EXCEPT ![ColdKey] =
            IF ok THEN pickle_save(@, procs[p].r, clock, "ok") ELSE @]
    /\ last_writer' = IF ok THEN p ELSE last_writer
    /\ procs' = [procs EXCEPT ![p] =
            IF ok THEN [@ EXCEPT !.pc = "done", !.wrote = TRUE,
                                 !.outcome = "return", !.result = procs[p].r]
            ELSE [@ EXCEPT !.pc = "except", !.err = "persist"]]
    /\ UNCHANGED <<dir_exists, fail>>
    /\ ConcUnchanged

\* lines 110-123: write the sentinel, then re-raise or fall back
Except(p) ==
    /\ procs[p].pc = "except"
    /\ fail' = [fail EXCEPT ![ColdKey] =
            IF writes_fail_file(cfg.cache_failure)
            THEN [write_fail_file(clock) EXCEPT !.stamp = procs[p].now]
            ELSE @]
    /\ procs' = [procs EXCEPT ![p] =
            IF uses_stale(cfg.use_stale_on_failure, procs[p].no_file)
            THEN [@ EXCEPT !.pc = "read"]
            ELSE [@ EXCEPT !.pc = "done", !.outcome = "raise"]]
    /\ UNCHANGED <<dir_exists, entry, last_writer>>
    /\ ConcUnchanged

\* lines 124 and 126: r = self.read_f(fn); then line 127
Read(p) ==
    /\ procs[p].pc = "read"
    /\ LET rd == pickle_read(entry[ColdKey])
       IN  procs' = [procs EXCEPT ![p] =
                IF rd.ok
                THEN [@ EXCEPT !.pc = "done", !.outcome = "return", !.result = rd.r,
                               !.err = "none"]
                ELSE [@ EXCEPT !.pc = "done", !.outcome = "raise", !.err = "read"]]
    /\ UNCHANGED <<dir_exists, entry, fail, last_writer>>
    /\ ConcUnchanged

\* ------------------------------------------------------------------ Init
\* the cache directory as an earlier run may have left it
EntryFiles == {NoEntry} \cup {pickle_save(NoEntry, v, 0, "ok") : v \in Values}
FailFiles == {NoFail, write_fail_file(0)}

Init ==
    /\ clock = 0
    /\ cfg \in Configs
    /\ entry \in [Keys -> EntryFiles]
    /\ fail \in [Keys -> FailFiles]
    /\ dir_exists \in BOOLEAN
    /\ (\E k \in Keys : entry[k].exists \/ fail[k].exists) => dir_exists
    /\ last = NoCall
    /\ stored = [k \in Keys |-> FALSE]
    /\ failed = [k \in Keys |-> FALSE]
    /\ th = NoThrottle
    /\ tcount = 0
    /\ tlast = NoInvocation
    /\ nd = NoQuery
    /\ procs = [p \in Procs |-> Idle]
    /\ last_writer = 0

Next == Call \/ Tick

Spec == Init /\ [][Next]_vars

\* A Throttledf object on its own; the Cachedf built by pickle_cached(f, 0) idles
DefaultConfig ==
    [ expire_time_secs |-> 0, only_cached |-> FALSE, force_reload |-> FALSE,
      cache_failure |-> TRUE, use_stale_on_failure |-> FALSE ]

ThrottleInit ==
    /\ th \in Throttles
    /\ tcount = 0
    /\ tlast = NoInvocation
    /\ clock = 0
    /\ cfg = DefaultConfig
    /\ dir_exists = FALSE
    /\ entry = [k \in Keys |-> NoEntry]
    /\ fail = [k \in Keys |-> NoFail]
    /\ last = NoCall
    /\ stored = [k \in Keys |-> FALSE]
    /\ failed = [k \in Keys |-> FALSE]
    /\ nd = NoQuery
    /\ procs = [p \in Procs |-> Idle]
    /\ last_writer = 0

ThrottleNext == Invoke

ThrottleSpec == ThrottleInit /\ [][ThrottleNext]_vars

\* need_to_download on its own
FreshInit ==
    /\ nd \in Queries
    /\ clock = 0
    /\ cfg = DefaultConfig
    /\ dir_exists = FALSE
    /\ entry = [k \in Keys |-> NoEntry]
    /\ fail = [k \in Keys |-> NoFail]
    /\ last = NoCall
    /\ stored = [k \in Keys |-> FALSE]
    /\ failed = [k \in Keys |-> FALSE]
    /\ th = NoThrottle
    /\ tcount = 0
    /\ tlast = NoInvocation
    /\ procs = [p \in Procs |-> Idle]
    /\ last_writer = 0

FreshNext == NeedToDownload

FreshSpec == FreshInit /\ [][FreshNext]_vars

\* two concurrent callers on a cold cache
ConcInit ==
    /\ clock = 0
    /\ cfg \in Configs
    /\ dir_exists \in BOOLEAN
    /\ entry = [k \in Keys |-> NoEntry]
    /\ fail = [k \in Keys |-> NoFail]
    /\ procs = [p \in Procs |-> Idle]
    /\ last_writer = 0
    /\ last = NoCall
    /\ stored = [k \in Keys |-> FALSE]
    /\ failed = [k \in Keys |-> FALSE]
    /\ th = NoThrottle
    /\ tcount = 0
    /\ tlast = NoInvocation
    /\ nd = NoQuery

ConcNext ==
    \/ \E p \in Procs : Start(p)
    \/ \E p \in Procs, dl \in DownloadOutcomes : Download(p, dl)
    \/ \E p \in Procs, ok \in BOOLEAN : SaveOpen(p, ok)
    \/ \E p \in Procs, ok \in BOOLEAN : SaveDump(p, ok)
    \/ \E p \in Procs : Except(p)
    \/ \E p \in Procs : Read(p)
    \/ Tick

ConcSpec == ConcInit /\ [][ConcNext]_vars

\* ================================================================ claims
Occurs(events, e) == Cardinality({i \in DOMAIN events : events[i] = e})
Called == last.outcome # "none"
\* a step of Call: Tick is the only step that moves the clock
IsCall == clock' = clock /\ last'.outcome # "none"

\* C1: after a call fetched and persisted V for k at time t (stored[k], with
\* t the entry's mtime), a call for k at a time t' with t' - t <=
\* expire_time_secs and force_reload false only calls read_f and returns V,
\* whatever the sentinel is.
C1_CacheHit ==
    [][\A k \in Keys :
        ( /\ IsCall /\ last'.key = k
          /\ stored[k]
          /\ clock - entry[k].mtime <= cfg.expire_time_secs
          /\ ~cfg.force_reload )
        => ( /\ ~last'.fetch
             /\ last'.events = <<"read_f">>
             /\ last'.outcome = "return"
             /\ last'.r = entry[k].data )]_vars

C1_Witness ==
    /\ Called /\ stored[last.key] /\ ~cfg.force_reload
    /\ last.events = <<"read_f">> /\ last.r = entry[last.key].data
    /\ last.fail_file_exists
    /\ cfg.expire_time_secs > 0
    /\ last.now - entry[last.key].mtime = cfg.expire_time_secs

\* C2: on a cold cache (no entry, no sentinel) with download_f returning V,
\* download_f is called exactly once with args[1:] and the keyword
\* arguments, save_f is called once with (entry path, V), and unless save_f
\* raises the entry then holds V and the call returns V; for every
\* configuration.
C2_ColdCache ==
    (Called /\ ~last.file_exists /\ ~last.fail_file_exists /\ last.dl_ok)
    => ( /\ Occurs(last.events, "download_f") = 1
         /\ last.events[1] = "download_f"
         /\ last.dl_args = <<SubSeq(last.args, 2, Len(last.args)), last.kwargs>>
         /\ Occurs(last.events, "save_f") = 1
         /\ last.events[2] = "save_f"
         /\ last.save_args[1] = last.key
         /\ last.save_args[2] \in Values
         /\ (last.save_outcome = "ok"
             => ( /\ entry[last.key].exists
                  /\ entry[last.key].data = last.save_args[2]
                  /\ last.events = <<"download_f", "save_f">>
                  /\ last.outcome = "return"
                  /\ last.r = last.save_args[2] )) )

C2_Witness ==
    /\ Called /\ ~last.file_exists /\ ~last.fail_file_exists /\ last.dl_ok
    /\ last.save_outcome = "ok" /\ last.r = "V" /\ entry[last.key].data = "V"
    /\ last.dl_args = << <<"a">>, <<"x">> >>
    /\ cfg.only_cached

\* C3: with force_reload set every call invokes download_f, whatever exists
\* on disk, however fresh, and whether or not only_cached is set.
C3_ForceReload ==
    (Called /\ cfg.force_reload)
    => (last.fetch /\ Occurs(last.events, "download_f") = 1 /\ last.events[1] = "download_f")

C3_Witness ==
    /\ Called /\ cfg.force_reload /\ cfg.only_cached
    /\ last.file_exists /\ last.fail_file_exists /\ ~last.file_expired
    /\ last.events[1] = "download_f"

\* C4: with only_cached set and force_reload clear, a call that finds the
\* entry never invokes download_f, however old entry and sentinel are, and
\* its outcome is read_f's; a call that finds neither entry nor sentinel
\* still invokes download_f.
C4_OnlyCached ==
    (Called /\ cfg.only_cached /\ ~cfg.force_reload)
    => ( /\ last.file_exists =>
              ( /\ ~last.fetch
                /\ last.events = <<"read_f">>
                /\ LET rd == pickle_read(entry[last.key])
                   IN  IF rd.ok THEN last.outcome = "return" /\ last.r = rd.r
                       ELSE last.outcome = "raise" /\ last.err = "read" )
         /\ (~last.file_exists /\ ~last.fail_file_exists) =>
              (last.fetch /\ Occurs(last.events, "download_f") = 1) )

C4_Witness ==
    /\ Called /\ cfg.only_cached /\ ~cfg.force_reload
    /\ last.file_exists /\ last.fail_file_exists /\ last.file_expired
    /\ last.events = <<"read_f">> /\ last.outcome = "return"
    /\ last.now - entry[last.key].mtime > cfg.expire_time_secs + 1

\* C5: a call fetches exactly when force_reload, or neither file exists, or
\* some file exists and now - (latest mtime of those that exist) > expiry and
\* only_cached is clear; otherwise it reads the entry.
C5_ShouldFetch ==
    [][IsCall =>
        LET k == last'.key
            e == entry[k].exists
            s == fail[k].exists
            eff == IF e /\ s THEN Max(entry[k].mtime, fail[k].mtime)
                   ELSE IF e THEN entry[k].mtime ELSE fail[k].mtime
            expired == clock - eff > cfg.expire_time_secs
            should_fetch ==
                \/ cfg.force_reload
                \/ (~e /\ ~s)
                \/ ((e \/ s) /\ expired /\ ~cfg.only_cached)
        IN  /\ last'.fetch = should_fetch
            /\ should_fetch => last'.events[1] = "download_f"
            /\ ~should_fetch => last'.events = <<"read_f">>]_vars

\* C6: when a call fetches, the entry holds a persisted value OLD,
\* download_f raises and use_stale_on_failure is set, the call returns OLD
\* through read_f without raising, leaves the entry as it was, and with
\* cache_failure set the sentinel exists afterwards.
C6_StaleFallback ==
    [][\A k \in Keys :
        ( /\ IsCall /\ last'.key = k
          /\ last'.fetch /\ ~last'.dl_ok
          /\ entry[k].exists /\ entry[k].data \in Values
          /\ cfg.use_stale_on_failure )
        => ( /\ last'.outcome = "return"
             /\ last'.err = "none"
             /\ last'.r = entry[k].data
             /\ last'.events[Len(last'.events)] = "read_f"
             /\ Occurs(last'.events, "save_f") = 0
             /\ entry'[k] = entry[k]
             /\ cfg.cache_failure => (fail'[k].exists /\ fail'[k].mtime = clock) )]_vars

C6_Witness ==
    /\ Called /\ last.fetch /\ ~last.dl_ok /\ last.file_exists
    /\ cfg.use_stale_on_failure /\ cfg.cache_failure
    /\ ~last.fail_file_exists /\ fail[last.key].exists
    /\ last.outcome = "return" /\ last.r = "OLD"
    /\ last.events = <<"download_f", "fail_write", "read_f">>

\* C7: when download_f raises and either use_stale_on_failure is clear or no
\* entry existed at the start of the call, the fetch error reaches the
\* caller and read_f is not called; with cache_failure set the sentinel is
\* written first.
C7_NoFallback ==
    ( /\ Called /\ last.fetch /\ ~last.dl_ok
      /\ (~cfg.use_stale_on_failure \/ ~last.file_exists) )
    => ( /\ last.outcome = "raise"
         /\ last.err = "fetch"
         /\ Occurs(last.events, "read_f") = 0
         /\ IF cfg.cache_failure
            THEN last.events = <<"download_f", "fail_write">> /\ fail[last.key].exists
            ELSE last.events = <<"download_f">> )

C7_Witness ==
    /\ Called /\ last.fetch /\ ~last.dl_ok
    /\ cfg.use_stale_on_failure /\ ~last.file_exists
    /\ cfg.cache_failure /\ fail[last.key].exists
    /\ last.outcome = "raise" /\ last.err = "fetch"

C7_WitnessNoStale ==
    /\ Called /\ last.fetch /\ ~last.dl_ok
    /\ ~cfg.use_stale_on_failure /\ last.file_exists
    /\ last.outcome = "raise" /\ last.err = "fetch"

\* C8: whenever save_f raises (download_f having returned), the persist
\* error reaches the caller, for every configuration and on-disk state.
C8_PersistErrorPropagates ==
    (Called /\ last.save_outcome \in {"fail_clean", "fail_partial"})
    => (last.outcome = "raise" /\ last.err = "persist")

\* C9: with cache_failure set and force_reload clear, after a call for k
\* whose download_f raised at time t (failed[k], with t the sentinel's
\* mtime), no call for k at a time t' with t' - t <= expire_time_secs invokes
\* download_f, whether or not an entry exists.
C9_FailureCached ==
    [][\A k \in Keys :
        ( /\ IsCall /\ last'.key = k
          /\ cfg.cache_failure /\ ~cfg.force_reload
          /\ failed[k] /\ fail[k].exists
          /\ clock - fail[k].mtime <= cfg.expire_time_secs )
        => (~last'.fetch /\ Occurs(last'.events, "download_f") = 0)]_vars

\* C10: as long as no on_throttle callback has raised (tlast.cb_errors = 0),
\* whether the wrapped function returns or raises, the pause of
\* wait_secs, preceded by on_throttle(self) when a callback is set, happens
\* right before the wrapped function in exactly the invocations whose
\* 1-based index is a multiple of calls + 1.
C10_ThrottleSchedule ==
    (tlast.index > 0 /\ tlast.cb_errors = 0)
    => LET due == tlast.index % (th.calls + 1) = 0
           head == IF th.on_throttle = "none" THEN <<"sleep", "f">>
                   ELSE <<"on_throttle", "sleep", "f">>
       IN  IF due
           THEN /\ SubSeq(tlast.events, 1, Len(head)) = head
                /\ tlast.slept = th.wait_secs
                /\ (th.on_throttle # "none") => tlast.cb_arg = "self"
           ELSE /\ Occurs(tlast.events, "sleep") = 0
                /\ Occurs(tlast.events, "on_throttle") = 0
                /\ tlast.events[1] = "f"
                /\ tlast.slept = 0

C10_Witness ==
    /\ th.calls = 2 /\ th.on_throttle = "ok" /\ th.wait_secs = 1
    /\ tlast.index = 6 /\ th.cc = 6
    /\ SubSeq(tlast.events, 1, 3) = <<"on_throttle", "sleep", "f">>
    /\ clock = 2

\* C11: with no entry file the data is judged expired and need_to_download
\* returns true even with only_cached set; with an entry file it is judged
\* expired exactly when now - mtime > expire_time_secs, strictly: expired at
\* mtime = now - expiry - 1, not expired at mtime = now nor at age = expiry.
\* Cachedf.__call__ judges the same file the same way when there is no fail
\* file.
C11_Freshness ==
    nd.done =>
        /\ ~nd.file_exists => (nd.file_expired /\ nd.result)
        /\ nd.file_exists => (nd.file_expired <=> nd.now - nd.mtime > nd.expire_time_secs)
        /\ (nd.file_exists /\ nd.mtime = nd.now - nd.expire_time_secs - 1) => nd.file_expired
        /\ (nd.file_exists /\ nd.mtime = nd.now) => ~nd.file_expired
        /\ (nd.file_exists /\ nd.now - nd.mtime = nd.expire_time_secs) => ~nd.file_expired
        /\ nd.cachedf_expired = nd.file_expired

C11_Witness ==
    /\ nd.done /\ nd.file_exists /\ nd.expire_time_secs > 0
    /\ nd.now - nd.mtime = nd.expire_time_secs
    /\ ~nd.file_expired /\ ~nd.result

C11_WitnessNoFile ==
    /\ nd.done /\ ~nd.file_exists /\ nd.only_cached /\ ~nd.force_reload
    /\ nd.file_expired /\ nd.result

\* C14: a call writes the sentinel if and only if cache_failure is set and
\* download_f raised in that call; with cache_failure clear no call writes
\* it, and a call in which download_f returned normally never writes it.
C14_SentinelIffFetchFailed ==
    [][\A k \in Keys :
        (IsCall /\ last'.key = k)
        => LET wrote == Occurs(last'.events, "fail_write") > 0
               fetch_raised == last'.fetch /\ ~last'.dl_ok
           IN  /\ wrote <=> (cfg.cache_failure /\ fetch_raised)
               /\ ~wrote => fail'[k] = fail[k]
               /\ wrote => fail'[k] = write_fail_file(clock)]_vars

\* C15: no step removes an entry or a sentinel, and a call whose download_f
\* and save_f both succeed leaves an existing sentinel as it was.
C15_NothingDeleted ==
    [][\A k \in Keys :
        /\ entry[k].exists => entry'[k].exists
        /\ fail[k].exists => fail'[k].exists
        /\ ( /\ IsCall /\ last'.key = k
             /\ last'.fetch /\ last'.dl_ok /\ last'.save_outcome = "ok" )
           => fail'[k] = fail[k]]_vars

C15_Witness ==
    /\ Called /\ last.fetch /\ last.dl_ok /\ last.save_outcome = "ok"
    /\ last.file_exists /\ last.fail_file_exists
    /\ failed[last.key]
    /\ fail[last.key].exists /\ fail[last.key].mtime < last.now
    /\ entry[last.key].mtime = last.now

\* C17: one call invokes download_f, save_f and read_f at most once each;
\* save_f only after download_f returned normally in that call; a call
\* that returns the freshly fetched result does not invoke read_f.
C17_NoRetry ==
    Called =>
        /\ Occurs(last.events, "download_f") <= 1
        /\ Occurs(last.events, "save_f") <= 1
        /\ Occurs(last.events, "read_f") <= 1
        /\ Occurs(last.events, "save_f") = 1 =>
              ( /\ last.dl_ok
                /\ Len(last.events) >= 2
                /\ last.events[1] = "download_f"
                /\ last.events[2] = "save_f" )
        /\ (last.dl_ok /\ last.save_outcome = "ok") =>
              ( /\ last.outcome = "return"
                /\ last.r = last.save_args[2]
                /\ Occurs(last.events, "read_f") = 0 )

C17_Witness ==
    /\ Called /\ last.file_exists /\ cfg.use_stale_on_failure
    /\ last.dl_ok /\ last.save_outcome = "ok"
    /\ last.events = <<"download_f", "save_f">>
    /\ last.outcome = "return" /\ last.r = "V"

\* C18: with force_reload clear, an entry holding a persisted value and
\* older than the expiry window, and a sentinel whose mtime is inside the
\* window, a call does not fetch and returns the entry's value through
\* read_f without raising, whatever use_stale_on_failure is.
C18_RecentFailureMasksExpiry ==
    [][\A k \in Keys :
        ( /\ IsCall /\ last'.key = k
          /\ ~cfg.force_reload
          /\ entry[k].exists /\ entry[k].data \in Values
          /\ clock - entry[k].mtime > cfg.expire_time_secs
          /\ fail[k].exists
          /\ clock - fail[k].mtime <= cfg.expire_time_secs )
        => ( /\ ~last'.fetch
             /\ last'.events = <<"read_f">>
             /\ last'.outcome = "return"
             /\ last'.r = entry[k].data )]_vars

C18_Witness ==
    /\ Called /\ ~cfg.force_reload /\ ~cfg.use_stale_on_failure /\ ~cfg.only_cached
    /\ last.file_exists /\ last.fail_file_exists /\ failed[last.key]
    /\ last.now - entry[last.key].mtime > cfg.expire_time_secs
    /\ last.now - fail[last.key].mtime <= cfg.expire_time_secs
    /\ last.events = <<"read_f">> /\ last.outcome = "return"

\* C19: when the entry exists and the sentinel's mtime is not later than
\* the entry's, a call decides as it would with the sentinel absent, at
\* every time and for every configuration.
C19_SupersededSentinel ==
    [][\A k \in Keys :
        ( /\ IsCall /\ last'.key = k
          /\ entry[k].exists /\ fail[k].exists
          /\ fail[k].mtime <= entry[k].mtime )
        => last'.fetch = should_download(TRUE, entry[k].mtime, FALSE, 0, clock, cfg)]_vars

C19_Witness ==
    /\ Called /\ last.file_exists /\ last.fail_file_exists
    /\ failed[last.key] /\ stored[last.key]
    /\ fail[last.key].mtime < entry[last.key].mtime
    /\ ~cfg.force_reload /\ ~cfg.only_cached
    /\ ~last.fetch /\ last.events = <<"read_f">>

\* C20: a call that decides not to fetch leaves the entry and the sentinel
\* of its key exactly as they were and invokes neither download_f nor
\* save_f.
C20_ReadOnlyHit ==
    [][\A k \in Keys :
        (IsCall /\ last'.key = k /\ ~last'.fetch)
        => ( /\ entry'[k] = entry[k]
             /\ fail'[k] = fail[k]
             /\ Occurs(last'.events, "download_f") = 0
             /\ Occurs(last'.events, "save_f") = 0
             /\ Occurs(last'.events, "fail_write") = 0 )]_vars

C20_Witness ==
    /\ Called /\ ~last.fetch /\ cfg.cache_failure
    /\ last.file_exists /\ last.fail_file_exists
    /\ stored[last.key] /\ failed[last.key]
    /\ last.events = <<"read_f">>
    /\ last.outcome = "return" /\ last.r = entry[last.key].data

\* C16: every invocation that calls the wrapped function adds exactly one to
\* cc, whether the function returns or raises, so cc is the number of such
\* invocations; an error of the function is re-raised after the increment
\* and a normal result is returned unchanged.
C16_ThrottleCounter ==
    tlast.index > 0 =>
        LET n == Len(tlast.events)
            called_f == tlast.f_result # "none"
        IN  /\ th.cc = tcount - tlast.cb_errors
            /\ called_f <=> Occurs(tlast.events, "f") = 1
            /\ called_f =>
                  ( /\ th.cc = tlast.cc_before + 1
                    /\ n >= 3
                    /\ tlast.events[n - 2] = "f"
                    /\ tlast.events[n - 1] = "cc += 1" )
            /\ ~called_f => th.cc = tlast.cc_before
            /\ tlast.f_result = "raised" =>
                  (tlast.outcome = "raise" /\ tlast.err = "f" /\ tlast.events[n] = "raise")
            /\ tlast.f_result \in Values =>
                  ( /\ tlast.outcome = "return" /\ tlast.r = tlast.f_result
                    /\ tlast.events[n] = "return" )

C16_Witness ==
    /\ tlast.index = 3 /\ tlast.f_result = "raised"
    /\ tlast.cc_before = 2 /\ th.cc = 3
    /\ tlast.outcome = "raise" /\ tlast.err = "f"

\* C13: nothing coordinates two concurrent callers of the same key on a cold
\* cache: both can find no entry and both call download_f (C13_Witness is
\* such a run), and once both have persisted, the entry holds the value of
\* the caller whose write came last.
C13_LastWriterWins ==
    (\A p \in Procs : procs[p].wrote)
    => ( /\ last_writer \in Procs
         /\ entry[ColdKey].exists
         /\ entry[ColdKey].data = procs[last_writer].r
         /\ \A p \in Procs : procs[p].fetch /\ procs[p].outcome = "return"
                              /\ procs[p].result = procs[p].r )

C13_Witness ==
    /\ ~cfg.force_reload
    /\ \A p \in Procs : /\ procs[p].pc = "done" /\ procs[p].no_file
                         /\ procs[p].fetch /\ procs[p].wrote
    /\ procs[1].r = "V" /\ procs[2].r = "OLD"
    /\ procs[1].result = "V" /\ procs[2].result = "OLD"
    /\ last_writer = 1
    /\ entry[ColdKey].data = "V"

====
